---- MODULE Spec2Model ----
(***************************************************************************)
(* Model of the personalization glue of an academic chatbot:               *)
(*   personalization_helper.py  PersonalizationHelper (HTTP client)        *)
(*   INTEGRATION_EXAMPLE.py     EnhancedChatbot (TTL cache, chat turn,     *)
(*                              style adaptation) and the REST endpoints   *)
(*                                                                         *)
(* Python strings are sequences: texts that are edited character by        *)
(* character (str.replace, len, "in") are sequences of one-character       *)
(* strings; texts that are only assembled from literals and fields are     *)
(* sequences of fragments, one per literal or interpolated field.          *)
(***************************************************************************)
EXTENDS Integers, Sequences, FiniteSets, TLC

VARIABLES now, profile_cache, messages, last, windowStart, windowReqs

vars == <<now, profile_cache, messages, last, windowStart, windowReqs>>

(***************************************************************************)
(* Bounds of the model.                                                    *)
(***************************************************************************)
MaxNow == 600
MaxInteractions == 6
MaxTopics == 2
\* the messages stored in the chat at the start, and the most considered
FirstMessages == 8
MaxMessages == 11

(***************************************************************************)
(* Python values as they come out of response.json().                      *)
(***************************************************************************)
PyNone == [type |-> "NoneType"]
PyDict(items) == [type |-> "dict", items |-> items]
\* a non-empty JSON array: a truthy value without a .get method
PyList == [type |-> "list"]
\* a body that is not JSON at all (or is empty): response.json() raises on it
Malformed == [type |-> "malformed"]
EmptyDict == <<>>

\* bool(v) of Python
Truthy(v) ==
  CASE v.type = "NoneType" -> FALSE
    [] v.type = "dict" -> DOMAIN v.items # {}
    [] OTHER -> TRUE

\* d.get(k, default) on a dict
Get(d, k, default) == IF k \in DOMAIN d THEN d[k] ELSE default

\* a key that is present with value v when opt = {v}, and missing when opt = {}
Field(k, opt) == [f \in (IF opt = {} THEN {} ELSE {k}) |-> CHOOSE v \in opt : TRUE]

(***************************************************************************)
(* What a Python call does: return a value or raise an exception class.    *)
(***************************************************************************)
Return(v) == [raised |-> FALSE, exc |-> "none", value |-> v]
Raise(c) == [raised |-> TRUE, exc |-> c, value |-> PyNone]

\* The subclasses of requests.exceptions.RequestException that a request and
\* the decoding of its body can raise.
\* (requests >= 2.27: the error of response.json() is one of them.)
\* faulty variant: only the two transport errors are caught
RequestExceptionTransportOnly == {"Timeout", "ConnectionError"}

RequestException == {"Timeout", "ConnectionError", "JSONDecodeError"}

(***************************************************************************)
(* Strings.                                                                *)
(***************************************************************************)
RECURSIVE Flatten(_)
Flatten(ss) == IF ss = <<>> THEN <<>> ELSE Head(ss) \o Flatten(Tail(ss))

\* sep.join(parts), parts a sequence of strings
RECURSIVE Join(_, _)
Join(parts, sep) ==
  IF parts = <<>> THEN <<>>
  ELSE IF Len(parts) = 1 THEN parts[1]
  ELSE parts[1] \o sep \o Join(Tail(parts), sep)

\* xs[:n]
Take(xs, n) == SubSeq(xs, 1, IF Len(xs) < n THEN Len(xs) ELSE n)

\* "sub in s"
Contains(s, sub) ==
  \E i \in 0..(Len(s) - Len(sub)) : SubSeq(s, i + 1, i + Len(sub)) = sub

(***************************************************************************)
(* The remote personalization service, seen from the client: every request *)
(* ends in a timeout, a connection error, or a response with a status and  *)
(* a body.                                                                 *)
(***************************************************************************)
HTTP_OK == 200
Statuses == {200, 201, 404, 500}

TimeoutOutcome == [kind |-> "Timeout", status |-> 0, body |-> PyNone]
ConnectionOutcome == [kind |-> "ConnectionError", status |-> 0, body |-> PyNone]
Response(s, b) == [kind |-> "response", status |-> s, body |-> b]

\* bodies sent with an error status: not JSON, or a JSON object
ErrorBodies == {Malformed, PyDict([data_available |-> TRUE, total_interactions |-> 9, has_data |-> TRUE])}
\* bodies that are no JSON object with fields
OddBodies == {Malformed, PyNone, PyList, PyDict(EmptyDict)}

\* every way a request can end, the 200 responses carrying a body of bodies
Outcomes(bodies) ==
  {TimeoutOutcome, ConnectionOutcome}
    \cup {Response(HTTP_OK, b) : b \in bodies \cup OddBodies}
    \cup {Response(s, b) : s \in Statuses \ {HTTP_OK}, b \in ErrorBodies}

\* requests.get / requests.post followed, on status 200 of a GET, by
\* response.json(): the exception class raised inside the try block
RaisedInTry(o, decodes) ==
  IF o.kind # "response" THEN o.kind
  ELSE IF decodes /\ o.status = HTTP_OK /\ o.body = Malformed THEN "JSONDecodeError"
  ELSE "none"

\* get_user_profile and get_user_report: GET, status check, json(), and the
\* except clause
GetJson(o) ==
  LET exc == RaisedInTry(o, TRUE)
  IN  IF exc # "none"
      THEN IF exc \in RequestException THEN Return(PyNone) ELSE Raise(exc)
      ELSE IF o.status = HTTP_OK THEN Return(o.body)
      ELSE Return(PyNone)

get_user_profile(o) == GetJson(o)

get_user_report(o) == GetJson(o)

\* faulty variant: any 2xx status counts as success
trigger_profile_update_2xx(o) ==
  LET exc == RaisedInTry(o, FALSE)
  IN  IF exc # "none" THEN Return(FALSE)
      ELSE Return(o.status \in 200..299)

\* trigger_profile_update: POST, status check, the except clause
trigger_profile_update(o) ==
  LET exc == RaisedInTry(o, FALSE)
  IN  IF exc # "none"
      THEN IF exc \in RequestException THEN Return(FALSE) ELSE Raise(exc)
      ELSE Return(o.status = HTTP_OK)

(***************************************************************************)
(* PersonalizationHelper: the operations that render a fetched profile.    *)
(* A mapping whose order shows in the output (personality_traits,          *)
(* skill_levels) is a sequence of entries, in the order of the JSON body.  *)
(***************************************************************************)

\* f"{v:.2f}" of a score given in hundredths
Format2f(h) ==
  <<ToString(h \div 100), ".", ToString((h % 100) \div 10), ToString(h % 10)>>

RECURSIVE TraitParts(_)
TraitParts(traits) ==
  IF traits = <<>> THEN <<>>
  ELSE LET t == Head(traits)
       IN  (IF t.numeric THEN <<(<<t.name, ": ">> \o Format2f(t.value))>> ELSE <<>>)
             \o TraitParts(Tail(traits))

RECURSIVE SkillParts(_)
SkillParts(skills) ==
  IF skills = <<>> THEN <<>>
  ELSE <<(<<Head(skills).name, ": ", Head(skills).level>>)>> \o SkillParts(Tail(skills))

\* one-element strings of a sequence of plain strings
RECURSIVE AsStrings(_)
AsStrings(xs) == IF xs = <<>> THEN <<>> ELSE <<(<<Head(xs)>>)>> \o AsStrings(Tail(xs))

TraitsLine(p) ==
  LET traits == Get(p, "personality_traits", <<>>)
      traits_str == Join(TraitParts(traits), <<", ">>)
  IN  IF traits # <<>> /\ traits_str # <<>>
      THEN <<(<<"Personality traits: ">> \o traits_str)>>
      ELSE <<>>

StyleLine(p) ==
  LET comm_style == Get(p, "communication_style", EmptyDict)
  IN  IF DOMAIN comm_style # {}
      THEN <<(<<"Communication style: ", Get(comm_style, "formality", "mixed"),
                ", ", Get(comm_style, "verbosity", "moderate")>>)>>
      ELSE <<>>

TopicsLine(p) ==
  LET topics == Get(p, "topics_of_interest", <<>>)
  IN  IF topics # <<>>
      THEN <<(<<"Topics of interest: ">> \o Join(AsStrings(Take(topics, 5)), <<", ">>))>>
      ELSE <<>>

SkillsLine(p) ==
  LET skills == Get(p, "skill_levels", <<>>)
  IN  IF skills # <<>>
      THEN <<(<<"Skill levels: ">> \o Join(SkillParts(skills), <<", ">>))>>
      ELSE <<>>

RecsLine(p) ==
  LET recs == Get(p, "recommendations", EmptyDict)
      learning_recs == Get(recs, "learning_style", <<>>)
  IN  IF DOMAIN recs # {} /\ learning_recs # <<>>
      THEN <<(<<"Learning recommendations: ">>
                \o Join(AsStrings(Take(learning_recs, 2)), <<"; ">>))>>
      ELSE <<>>

ResumeLine(p) ==
  LET resume_insights == Get(p, "resume_insights", EmptyDict)
  IN  IF DOMAIN resume_insights # {} /\ Get(resume_insights, "total_analyses", 0) > 0
      THEN <<(<<"Resume performance: ", ToString(Get(resume_insights, "average_score", 0)),
                "% average score, ", Get(resume_insights, "improvement_trend", "stable"),
                " trend">>)>>
      ELSE <<>>

ContextHeader == <<"\n[PERSONALIZATION INSIGHTS:]">>
ContextFooter == <<"[END PERSONALIZATION INSIGHTS]\n">>

\* faulty variant: the topics line is appended before the style line
ContextPartsTopicsFirst(p) ==
  <<ContextHeader>> \o TraitsLine(p) \o TopicsLine(p) \o StyleLine(p)
    \o SkillsLine(p) \o RecsLine(p) \o ResumeLine(p) \o <<ContextFooter>>

\* context_parts of build_personalization_context, for a profile with data
ContextParts(p) ==
  <<ContextHeader>> \o TraitsLine(p) \o StyleLine(p) \o TopicsLine(p)
    \o SkillsLine(p) \o RecsLine(p) \o ResumeLine(p) \o <<ContextFooter>>

\* faulty variant: a missing data_available counts as available
NoDataDefaultTrue(profile) ==
  IF ~Truthy(profile) THEN Return(TRUE)
  ELSE IF profile.type # "dict" THEN Raise("AttributeError")
  ELSE Return(~Get(profile.items, "data_available", TRUE))

\* the guard shared by the operations that need a profile with data: the
\* profile is falsy, or its data_available is; .get on a value that is no
\* dict raises AttributeError
NoData(profile) ==
  IF ~Truthy(profile) THEN Return(TRUE)
  ELSE IF profile.type # "dict" THEN Raise("AttributeError")
  ELSE Return(~Get(profile.items, "data_available", FALSE))

build_personalization_context(username, o) ==
  LET fetched == get_user_profile(o)
      profile == fetched.value
      nodata == NoData(profile)
  IN  IF fetched.raised THEN fetched
      ELSE IF nodata.raised THEN nodata
      ELSE IF nodata.value THEN Return(<<>>)
      ELSE Return(Join(ContextParts(profile.items), <<"\n">>))


NoProfileMessage ==
  <<"I don't have access to your resume analysis yet. Please upload your resume through the Resume Analyzer module first.">>
NoResumeMessage ==
  <<"You haven't uploaded any resume for analysis yet. Would you like me to guide you through the Resume Analyzer module?">>

TierExcellent == "Your resume is in excellent shape! "
TierGood == "Your resume is good, with room for improvement. "
TierNeedsWork == "Your resume needs some work to stand out. "
TierSignificant == "Your resume needs significant improvements. "
TierSentences == {TierExcellent, TierGood, TierNeedsWork, TierSignificant}

\* faulty variant: a score of exactly 80 is not yet excellent
TierSentenceExclusive(avg_score) ==
  IF avg_score > 80 THEN TierExcellent
  ELSE IF avg_score >= 70 THEN TierGood
  ELSE IF avg_score >= 60 THEN TierNeedsWork
  ELSE TierSignificant

\* the interpretation added to the summary
TierSentence(avg_score) ==
  IF avg_score >= 80 THEN TierExcellent
  ELSE IF avg_score >= 70 THEN TierGood
  ELSE IF avg_score >= 60 THEN TierNeedsWork
  ELSE TierSignificant

TrendSentence(trend) ==
  IF trend = "Improving" THEN "Great job on the improvements you've made!"
  ELSE IF trend = "Declining" THEN "Let's work on getting your resume back on track."
  ELSE "Keep refining your resume with each application."

RECURSIVE Bullets(_)
Bullets(imps) ==
  IF imps = <<>> THEN <<>>
  ELSE <<"* ", Head(imps), "\n">> \o Bullets(Tail(imps))

\* faulty variant: every area for improvement gets a bullet
ReportPartAll(report) ==
  IF ~Truthy(report) THEN Return(<<>>)
  ELSE IF report.type # "dict" THEN Raise("AttributeError")
  ELSE LET improvements == Get(report.items, "areas_for_improvement", <<>>)
       IN  IF Get(report.items, "has_data", FALSE) /\ improvements # <<>>
           THEN Return(<<"\n\n**Key areas to focus on**:\n">> \o Bullets(improvements))
           ELSE Return(<<>>)

\* the improvement bullets taken from the report
ReportPart(report) ==
  IF ~Truthy(report) THEN Return(<<>>)
  ELSE IF report.type # "dict" THEN Raise("AttributeError")
  ELSE LET improvements == Get(report.items, "areas_for_improvement", <<>>)
       IN  IF Get(report.items, "has_data", FALSE) /\ improvements # <<>>
           THEN Return(<<"\n\n**Key areas to focus on**:\n">> \o Bullets(Take(improvements, 3)))
           ELSE Return(<<>>)

\* the summary text built from resume_insights, before the report is fetched
ScoreSummary(ri) ==
  LET total == Get(ri, "total_analyses", 0)
      avg_score == Get(ri, "average_score", 0)
      latest_score == Get(ri, "latest_score", 0)
      trend == Get(ri, "improvement_trend", "stable")
      target_roles == Get(ri, "target_roles", <<>>)
  IN  <<"Based on your ", ToString(total), " resume analysis/analyses:\n\n">>
        \o <<"**Average Score**: ", ToString(avg_score), "%\n">>
        \o <<"**Latest Score**: ", ToString(latest_score), "%\n">>
        \o <<"**Trend**: ", trend, "\n">>
        \o (IF target_roles # <<>>
            THEN <<"**Target Roles**: ">> \o Join(AsStrings(Take(target_roles, 3)), <<", ">>) \o <<"\n">>
            ELSE <<>>)
        \o <<"\n">>
        \o <<TierSentence(avg_score)>>
        \o <<TrendSentence(trend)>>

\* faulty variant: only a missing resume_insights counts as "no resume"
HasNoResumeMissingOnly(ri) == DOMAIN ri = {}

\* the "no resume uploaded" test of get_resume_summary_for_chat
HasNoResume(ri) == DOMAIN ri = {} \/ Get(ri, "total_analyses", 0) = 0

\* faulty variant: both guards answer with the same message
get_resume_summary_one_message(username, o, o2) ==
  LET fetched == get_user_profile(o)
      profile == fetched.value
      one == <<"GET profile">>
  IN  IF fetched.raised THEN fetched @@ [requests |-> one]
      ELSE IF ~Truthy(profile) THEN Return(NoResumeMessage) @@ [requests |-> one]
      ELSE IF profile.type # "dict" THEN Raise("AttributeError") @@ [requests |-> one]
      ELSE LET ri == Get(profile.items, "resume_insights", EmptyDict)
               reported == get_user_report(o2)
               part == ReportPart(reported.value)
               two == <<"GET profile", "GET report">>
           IN  IF HasNoResume(ri) THEN Return(NoResumeMessage) @@ [requests |-> one]
               ELSE IF reported.raised THEN reported @@ [requests |-> two]
               ELSE IF part.raised THEN part @@ [requests |-> two]
               ELSE Return(ScoreSummary(ri) \o part.value) @@ [requests |-> two]

\* get_resume_summary_for_chat; o is the outcome of the profile request and
\* o2 the outcome of the report request, when one is issued.
\* value: the text; requests: the requests issued, in order
get_resume_summary_for_chat(username, o, o2) ==
  LET fetched == get_user_profile(o)
      profile == fetched.value
      one == <<"GET profile">>
  IN  IF fetched.raised THEN fetched @@ [requests |-> one]
      ELSE IF ~Truthy(profile) THEN Return(NoProfileMessage) @@ [requests |-> one]
      ELSE IF profile.type # "dict" THEN Raise("AttributeError") @@ [requests |-> one]
      ELSE LET ri == Get(profile.items, "resume_insights", EmptyDict)
               reported == get_user_report(o2)
               part == ReportPart(reported.value)
               two == <<"GET profile", "GET report">>
           IN  IF HasNoResume(ri) THEN Return(NoResumeMessage) @@ [requests |-> one]
               ELSE IF reported.raised THEN reported @@ [requests |-> two]
               ELSE IF part.raised THEN part @@ [requests |-> two]
               ELSE Return(ScoreSummary(ri) \o part.value) @@ [requests |-> two]

MinInteractions == 5

\* faulty variant: the threshold is exclusive
should_personalize_strict(username, o) ==
  LET fetched == get_user_profile(o)
      profile == fetched.value
  IN  IF fetched.raised THEN fetched
      ELSE IF ~Truthy(profile) THEN Return(FALSE)
      ELSE IF profile.type # "dict" THEN Raise("AttributeError")
      ELSE Return(Get(profile.items, "total_interactions", 0) > MinInteractions)

should_personalize_response(username, o) ==
  LET fetched == get_user_profile(o)
      profile == fetched.value
  IN  IF fetched.raised THEN fetched
      ELSE IF ~Truthy(profile) THEN Return(FALSE)
      ELSE IF profile.type # "dict" THEN Raise("AttributeError")
      ELSE Return(Get(profile.items, "total_interactions", 0) >= MinInteractions)

\* faulty variant: the plain greeting does not name the user
PlainGreetingAnonymous(username) == <<"Hi ", "there", "! (wave)">>

\* f"Hi {username}! (wave emoji)"
PlainGreeting(username) == <<"Hi ", username, "! (wave)">>

\* faulty variant: the follow-up names the last topic
ProfileGreetingLastTopic(username, p) ==
  LET comm_style == Get(p, "communication_style", EmptyDict)
      formality == Get(comm_style, "formality", "mixed")
      resume_insights == Get(p, "resume_insights", EmptyDict)
      has_resume == Get(resume_insights, "total_analyses", 0) > 0
      topics == Get(p, "topics_of_interest", <<>>)
      greeting == IF formality = "formal"
                  THEN <<"Hello ", username, ",">>
                  ELSE <<"Hey ", username, "! ", "(wave)">>
  IN  IF topics # <<>> /\ Len(topics) > 0
      THEN greeting \o <<" Ready to explore ", topics[Len(topics)], " today?">>
      ELSE IF has_resume
      THEN greeting \o <<" How can I help you with your academic or career goals today?">>
      ELSE greeting \o <<" What would you like to learn about today?">>

\* the greeting of a profile with data
\* (f"Hey {username}! (wave emoji)" is "Hey ", the name, "! " and the emoji)
ProfileGreeting(username, p) ==
  LET comm_style == Get(p, "communication_style", EmptyDict)
      formality == Get(comm_style, "formality", "mixed")
      resume_insights == Get(p, "resume_insights", EmptyDict)
      has_resume == Get(resume_insights, "total_analyses", 0) > 0
      topics == Get(p, "topics_of_interest", <<>>)
      greeting == IF formality = "formal"
                  THEN <<"Hello ", username, ",">>
                  ELSE <<"Hey ", username, "! ", "(wave)">>
  IN  IF topics # <<>> /\ Len(topics) > 0
      THEN greeting \o <<" Ready to explore ", topics[1], " today?">>
      ELSE IF has_resume
      THEN greeting \o <<" How can I help you with your academic or career goals today?">>
      ELSE greeting \o <<" What would you like to learn about today?">>

\* PersonalizationHelper.get_personalized_greeting
helper_get_personalized_greeting(username, o) ==
  LET fetched == get_user_profile(o)
      profile == fetched.value
      nodata == NoData(profile)
  IN  IF fetched.raised THEN fetched
      ELSE IF nodata.raised THEN nodata
      ELSE IF nodata.value THEN Return(PlainGreeting(username))
      ELSE Return(ProfileGreeting(username, profile.items))

\* EnhancedChatbot.get_personalized_greeting: the helper's greeting, or the
\* fallback when the helper raises
chatbot_get_personalized_greeting(username, o) ==
  LET r == helper_get_personalized_greeting(username, o)
  IN  IF r.raised
      THEN Return(<<"Hi ", username, "! (wave) How can I help you today?">>)
      ELSE r

\* the GET /user/{username}/greeting endpoint: a JSON object, or an exception
\* handed to the HTTP layer
get_greeting(username, o) ==
  LET r == chatbot_get_personalized_greeting(username, o)
  IN  IF r.raised
      THEN Return([greeting |-> PlainGreeting(username)])
      ELSE Return([greeting |-> r.value])

(***************************************************************************)
(* EnhancedChatbot._adapt_response_style, on texts of characters.          *)
(***************************************************************************)

\* s.replace(old, new): every non-overlapping occurrence, left to right
\* old occurs in s at position i
OccursAt(s, old, i) == i + Len(old) - 1 <= Len(s) /\ SubSeq(s, i, i + Len(old) - 1) = old

RECURSIVE Replace(_, _, _)
Replace(s, old, new) ==
  IF ~Contains(s, old) THEN s
  ELSE LET i == CHOOSE k \in 1..Len(s) :
                  OccursAt(s, old, k) /\ \A j \in 1..(k - 1) : ~OccursAt(s, old, j)
       IN  SubSeq(s, 1, i - 1) \o new
             \o Replace(SubSeq(s, i + Len(old), Len(s)), old, new)

Hey == <<"H", "e", "y">>
Hello == <<"H", "e", "l", "l", "o">>
Bang == <<"!">>
Dot == <<".">>
Gonna == <<"g", "o", "n", "n", "a">>
Wanna == <<"w", "a", "n", "n", "a">>
GoingTo == <<"g", "o", "i", "n", "g", " ", "t", "o">>
WantTo == <<"w", "a", "n", "t", " ", "t", "o">>
Spaced(w) == <<" ">> \o w \o <<" ">>
\* a filler of 46 characters, to build texts around the length of 50
Pad == [i \in 1..46 |-> "x"]
\* the five code points appended in casual mode: a space and the four of the
\* emoji as the source file stores it
FriendlyMarker == <<" ", "U+00F0", "U+0178", "U+02DC", "U+0160">>
MarkerMinLen == 50

FormalStyle(response) ==
  Replace(Replace(Replace(Replace(response, Hey, Hello), Bang, Dot),
                  Spaced(Gonna), Spaced(GoingTo)),
          Spaced(Wanna), Spaced(WantTo))

\* faulty variant: a text of exactly 50 characters gets the marker too
CasualStyleInclusive(response) ==
  LET r == Replace(response, Hello, Hey)
  IN  IF ~Contains(r, Bang) /\ Len(r) >= MarkerMinLen THEN r \o FriendlyMarker ELSE r

\* faulty variant: a text that ends with the marker gets no second one
CasualStyleOnce(response) ==
  LET r == Replace(response, Hello, Hey)
      n == Len(FriendlyMarker)
      marked == Len(r) >= n /\ SubSeq(r, Len(r) - n + 1, Len(r)) = FriendlyMarker
  IN  IF ~Contains(r, Bang) /\ Len(r) > MarkerMinLen /\ ~marked
      THEN r \o FriendlyMarker ELSE r

CasualStyle(response) ==
  LET r == Replace(response, Hello, Hey)
  IN  IF ~Contains(r, Bang) /\ Len(r) > MarkerMinLen THEN r \o FriendlyMarker ELSE r

\* _adapt_response_style(response, profile), profile a dict
adapt_response_style(response, p) ==
  LET comm_style == Get(p, "communication_style", EmptyDict)
      formality == Get(comm_style, "formality", "mixed")
  IN  IF formality = "formal" THEN FormalStyle(response)
      ELSE IF formality = "casual" THEN CasualStyle(response)
      ELSE response

(***************************************************************************)
(* EnhancedChatbot: the TTL cache, the insights and the chat turn.         *)
(***************************************************************************)
cache_ttl == 300

\* faulty variant: an entry aged exactly cache_ttl is still served
CacheFreshInclusive(cache, username, t) ==
  username \in DOMAIN cache /\ t - cache[username].timestamp <= cache_ttl

\* the entry of username exists and is younger than cache_ttl at time t
CacheFresh(cache, username, t) ==
  username \in DOMAIN cache /\ t - cache[username].timestamp < cache_ttl

\* faulty variant: the fetched profile is returned but never stored
get_cached_profile_nostore(cache, username, t, o) ==
  IF CacheFresh(cache, username, t)
  THEN Return(cache[username].profile) @@ [cache |-> cache, requests |-> <<>>]
  ELSE get_user_profile(o) @@ [cache |-> cache, requests |-> <<"GET profile">>]

\* faulty variant: a failed refresh drops the entry of the user
get_cached_profile_evict(cache, username, t, o) ==
  IF CacheFresh(cache, username, t)
  THEN Return(cache[username].profile) @@ [cache |-> cache, requests |-> <<>>]
  ELSE LET fetched == get_user_profile(o)
           profile == fetched.value
       IN  IF fetched.raised
           THEN fetched @@ [cache |-> cache, requests |-> <<"GET profile">>]
           ELSE Return(profile)
                  @@ [cache |-> IF Truthy(profile)
                                THEN (username :> [profile |-> profile, timestamp |-> t]) @@ cache
                                ELSE [v \in DOMAIN cache \ {username} |-> cache[v]],
                      requests |-> <<"GET profile">>]

\* faulty variant: the profile is requested whatever the cache holds
get_cached_profile_always_fetch(cache, username, t, o) ==
  LET fetched == get_user_profile(o)
      profile == fetched.value
  IN  IF fetched.raised
      THEN fetched @@ [cache |-> cache, requests |-> <<"GET profile">>]
      ELSE Return(profile)
             @@ [cache |-> IF Truthy(profile)
                           THEN (username :> [profile |-> profile, timestamp |-> t]) @@ cache
                           ELSE cache,
                 requests |-> <<"GET profile">>]

\* _get_cached_profile at clock reading t; o is the outcome of the profile
\* request, when one is issued.  value: the profile returned; cache: the
\* cache afterwards; requests: the requests issued
get_cached_profile(cache, username, t, o) ==
  IF CacheFresh(cache, username, t)
  THEN Return(cache[username].profile) @@ [cache |-> cache, requests |-> <<>>]
  ELSE LET fetched == get_user_profile(o)
           profile == fetched.value
       IN  IF fetched.raised
           THEN fetched @@ [cache |-> cache, requests |-> <<"GET profile">>]
           ELSE Return(profile)
                  @@ [cache |-> IF Truthy(profile)
                                THEN (username :> [profile |-> profile, timestamp |-> t]) @@ cache
                                ELSE cache,
                      requests |-> <<"GET profile">>]

\* faulty variant: every turn from the tenth message on triggers an update
should_update_profile_from_ten(username, message_count) ==
  message_count > 0 /\ message_count >= 10

\* _should_update_profile
should_update_profile(username, message_count) ==
  message_count > 0 /\ message_count % 10 = 0

\* faulty variant: every profile that is present counts as one with data
HasDataWhenPresent(profile) ==
  IF ~Truthy(profile) THEN Return(FALSE)
  ELSE IF profile.type # "dict" THEN Raise("AttributeError")
  ELSE Return(TRUE)

\* faulty variant: a missing data_available counts as data
HasDataDefaultTrue(profile) ==
  IF ~Truthy(profile) THEN Return(FALSE)
  ELSE IF profile.type # "dict" THEN Raise("AttributeError")
  ELSE Return(Get(profile.items, "data_available", TRUE))

\* "profile and profile.get('data_available')" of the chat turn and of the
\* insights: whether the profile is one with data
HasData(profile) ==
  IF ~Truthy(profile) THEN Return(FALSE)
  ELSE IF profile.type # "dict" THEN Raise("AttributeError")
  ELSE Return(Get(profile.items, "data_available", FALSE))

\* _format_personality_type
format_personality_type(p) ==
  LET traits == Get(p, "personality_traits", <<>>)
      high == SelectSeq(traits, LAMBDA t : t.value > 70)
  IN  IF traits = <<>> \/ \A i \in 1..Len(traits) : traits[i].value = 50
      THEN <<"Still learning about you...">>
      ELSE IF high # <<>>
      THEN <<"You show strong ">> \o Join(AsStrings([i \in 1..Len(Take(high, 2)) |-> high[i].name]), <<", ">>)
      ELSE <<"Balanced learner">>

\* get_user_insights_for_ui, on the profile _get_cached_profile returned
InsightsOf(profile) ==
  LET has == HasData(profile)
      p == profile.items
      resume_insights == Get(p, "resume_insights", EmptyDict)
  IN  IF has.raised THEN has
      ELSE IF ~has.value
      THEN Return([has_insights |-> FALSE,
                   message |-> "Chat with me more to unlock personalized insights!"])
      ELSE Return([has_insights |-> TRUE,
                   personality_type |-> format_personality_type(p),
                   communication_preference |->
                     Get(Get(p, "communication_style", EmptyDict), "formality", "mixed"),
                   topics_of_interest |-> Take(Get(p, "topics_of_interest", <<>>), 3),
                   resume_score |->
                     IF Get(resume_insights, "total_analyses", 0) > 0
                     THEN <<Get(resume_insights, "average_score", 0)>>
                     ELSE <<>>,
                   total_interactions |-> Get(p, "total_interactions", 0)])

\* the GET /user/{username}/insights endpoint: the insights, or the error
\* object when anything raised
get_user_insights(r) ==
  IF r.raised THEN Return([has_insights |-> FALSE, error |-> r.exc]) ELSE r

UpperCase == <<"A", "B", "C", "D", "E", "F", "G", "H", "I", "J", "K", "L", "M", "N", "O", "P", "Q", "R", "S", "T", "U", "V", "W", "X", "Y", "Z">>
LowerCase == <<"a", "b", "c", "d", "e", "f", "g", "h", "i", "j", "k", "l", "m", "n", "o", "p", "q", "r", "s", "t", "u", "v", "w", "x", "y", "z">>

\* str.lower(), letter by letter
LowerMap ==
  [c \in {UpperCase[i] : i \in 1..Len(UpperCase)} |->
     LowerCase[CHOOSE i \in 1..Len(UpperCase) : UpperCase[i] = c]]
LowerChar(c) == IF c \in DOMAIN LowerMap THEN LowerMap[c] ELSE c
Lower(s) == [i \in 1..Len(s) |-> LowerChar(s[i])]

resume_keywords ==
  <<<<"r", "e", "s", "u", "m", "e">>,
    <<"c", "v">>,
    <<"m", "y", " ", "a", "p", "p", "l", "i", "c", "a", "t", "i", "o", "n">>,
    <<"j", "o", "b", " ", "a", "p", "p", "l", "i", "c", "a", "t", "i", "o", "n">>,
    <<"m", "y", " ", "p", "r", "o", "f", "i", "l", "e">>,
    <<"c", "a", "r", "e", "e", "r">>,
    <<"h", "o", "w", " ", "a", "m", " ", "i", " ", "d", "o", "i", "n", "g">>>>

\* faulty variant: the keywords are looked for in the message as typed
IsResumeQuestionAsTyped(user_message) ==
  \E k \in 1..Len(resume_keywords) : Contains(user_message, resume_keywords[k])

\* any(keyword in user_message.lower() for keyword in resume_keywords)
IsResumeQuestion(user_message) ==
  LET lowered == Lower(user_message)
  IN  \E k \in 1..Len(resume_keywords) : Contains(lowered, resume_keywords[k])

\* "profile is not None and profile.get('data_available', False)"
PersonalizedFlag(profile) ==
  profile # PyNone /\ Get(profile.items, "data_available", FALSE)

\* what a chat turn leaves behind besides its result
\* (update: what trigger_profile_update returned, when it was called)
Effects(r, cache, count, requests, llm_calls, saved, profile, update) ==
  r @@ [cache |-> cache, messages |-> count, requests |-> requests,
        llm_calls |-> llm_calls, saved |-> saved, profile |-> profile,
        update |-> update]

\* chat_with_personalization at clock reading t, with count stored messages.
\* env: what the calls made during the turn meet:
\*   o1    outcome of the helper's profile request
\*   o2    outcome of the report request (resume question) or of the profile
\*         request of _get_cached_profile (otherwise)
\*   o3    outcome of the update POST
\*   fail  the host call that raises: "history" (_get_chat_history), "llm"
\*         (llm.invoke), "save" (_save_message_to_db), "messages"
\*         (_get_messages), or "none"
\*   llm   the text the LLM answers with
\*   rows  the messages one _save_message_to_db stores
chat_with_personalization(cache, t, count, username, user_message, env) ==
  IF IsResumeQuestion(user_message)
  THEN LET r == get_resume_summary_for_chat(username, env.o1, env.o2)
       IN  IF r.raised
           THEN Effects(Raise(r.exc), cache, count, r.requests, 0, <<>>, PyNone, <<>>)
           ELSE Effects(Return([response |-> r.value, is_recommendation |-> FALSE,
                                personalized |-> TRUE]),
                        cache, count, r.requests, 0, <<>>, PyNone, <<>>)
  ELSE LET ctx == build_personalization_context(username, env.o1)
           cached == get_cached_profile(cache, username, t, env.o2)
           profile == cached.value
           has == HasData(profile)
           assistant_response ==
             IF has.value THEN adapt_response_style(env.llm, profile.items) ELSE env.llm
           message_count == count + env.rows
           gets == <<"GET profile">> \o cached.requests
           posts == IF should_update_profile(username, message_count)
                    THEN <<"POST update">> ELSE <<>>
           \* any exception of the trigger is caught and logged
           update == IF should_update_profile(username, message_count)
                     THEN <<trigger_profile_update(env.o3).value>> ELSE <<>>
       IN  IF ctx.raised
           THEN Effects(Raise(ctx.exc), cache, count, <<"GET profile">>, 0, <<>>, PyNone, <<>>)
           ELSE IF env.fail = "history"
           THEN Effects(Raise("HostError"), cache, count, <<"GET profile">>, 0, <<>>, PyNone, <<>>)
           ELSE IF env.fail = "llm"
           THEN Effects(Raise("HostError"), cache, count, <<"GET profile">>, 1, <<>>, PyNone, <<>>)
           ELSE IF cached.raised
           THEN Effects(Raise(cached.exc), cached.cache, count, gets, 1, <<>>, profile, <<>>)
           ELSE IF has.raised
           THEN Effects(Raise(has.exc), cached.cache, count, gets, 1, <<>>, profile, <<>>)
           ELSE IF env.fail = "save"
           THEN Effects(Raise("HostError"), cached.cache, count, gets, 1, <<>>, profile, <<>>)
           ELSE IF env.fail = "messages"
           THEN Effects(Raise("HostError"), cached.cache, message_count, gets, 1,
                        <<assistant_response>>, profile, <<>>)
           ELSE Effects(Return([response |-> assistant_response,
                                is_recommendation |-> FALSE,
                                personalized |-> PersonalizedFlag(profile)]),
                        cached.cache, message_count, gets \o posts, 1,
                        <<assistant_response>>, profile, update)

(***************************************************************************)
(* The inputs: usernames and the profiles the service may answer with.     *)
(***************************************************************************)
Usernames == {"asha", "ravi"}

Formalities == {"formal", "casual", "mixed"}
TopicPool == <<"ml", "law", "design", "finance", "physics", "art", "music">>
Trends == {"Improving", "Declining", "stable"}

DataAvailableOpts == {{}, {TRUE}, {FALSE}}
CommStyleOpts ==
  {{}, {EmptyDict}, {[verbosity |-> "brief"]}}
    \cup {{[formality |-> f, verbosity |-> "detailed"]} : f \in Formalities}
TopicsOpts == {{}} \cup {{SubSeq(TopicPool, 1, n)} : n \in 0..MaxTopics}
ResumeOpts ==
  {{}, {EmptyDict}, {[average_score |-> 82, latest_score |-> 85]}}
    \cup {{[total_analyses |-> n, average_score |-> 82, latest_score |-> 85,
            improvement_trend |-> "Improving"]} : n \in {0, 3}}
\* resume_insights with analyses, on both sides of every tier boundary
Scores == {0, 59, 60, 69, 70, 79, 80, 82, 100}
ScoredResumeOpts ==
  {{[total_analyses |-> 3, average_score |-> s, latest_score |-> l,
     improvement_trend |-> tr]} : s \in Scores, l \in {40, 85}, tr \in Trends}
InteractionOpts == {{}} \cup {{n} : n \in 0..MaxInteractions}

\* a profile body with the given fields present
Profile(da, cs, tp, ri, ti) ==
  PyDict(Field("data_available", da) @@ Field("communication_style", cs)
           @@ Field("topics_of_interest", tp) @@ Field("resume_insights", ri)
           @@ Field("total_interactions", ti))

\* the profiles read by the context block and the greeting
GreetingProfiles ==
  {Profile(da, cs, tp, ri, {}) :
     da \in DataAvailableOpts, cs \in CommStyleOpts, tp \in TopicsOpts, ri \in ResumeOpts}
\* the profiles read by the resume summary
ResumeProfiles ==
  {Profile(da, {}, {}, ri, {}) : da \in DataAvailableOpts, ri \in ResumeOpts}
    \cup {Profile({TRUE}, {}, {}, ri, {}) : ri \in ScoredResumeOpts}
\* the profiles read by the personalization threshold
InteractionProfiles ==
  {Profile(da, {}, {}, {}, ti) : da \in DataAvailableOpts, ti \in InteractionOpts}

\* personality_traits: missing, empty, scores only, labels only, both
TraitOpts ==
  {{}, {<<>>},
   {<<[name |-> "openness", numeric |-> TRUE, value |-> 75]>>},
   {<<[name |-> "type", numeric |-> FALSE, value |-> 0]>>},
   {<<[name |-> "type", numeric |-> FALSE, value |-> 0],
      [name |-> "openness", numeric |-> TRUE, value |-> 75],
      [name |-> "rigor", numeric |-> TRUE, value |-> 5]>>}}
SkillOpts ==
  {{}, {<<>>},
   {<<[name |-> "python", level |-> "advanced"], [name |-> "sql", level |-> "beginner"]>>}}
RecPool == <<"Use diagrams", "Practice daily", "Teach others">>
RecOpts ==
  {{}, {EmptyDict}, {[learning_style |-> <<>>]}, {[career |-> <<"Apply early">>]}}
    \cup {{[learning_style |-> SubSeq(RecPool, 1, n)]} : n \in 1..3}
\* topics_of_interest up to the five the block lists, and one more
LongTopicsOpts == TopicsOpts \cup {{SubSeq(TopicPool, 1, n)} : n \in {4, 5, 6}}

\* the profiles with data read by the context block
ContextProfiles ==
  {PyDict(Field("data_available", {TRUE}) @@ Field("personality_traits", tr)
            @@ Field("communication_style", cs) @@ Field("topics_of_interest", tp)
            @@ Field("skill_levels", sk) @@ Field("recommendations", rc)
            @@ Field("resume_insights", ri)) :
     tr \in TraitOpts,
     cs \in {{}, {EmptyDict}, {[formality |-> "formal", verbosity |-> "detailed"]}},
     tp \in LongTopicsOpts, sk \in SkillOpts, rc \in RecOpts,
     ri \in {{}, {[total_analyses |-> 0, average_score |-> 82, improvement_trend |-> "stable"]},
             {[total_analyses |-> 3, average_score |-> 82, improvement_trend |-> "Improving"]}}}

ImprovementPool == <<"Add metrics", "Shorten summary", "List projects", "Fix layout">>
ReportBodies ==
  {PyDict([has_data |-> h, areas_for_improvement |-> SubSeq(ImprovementPool, 1, n)]) :
     h \in BOOLEAN, n \in {0, 2, 4}}
    \cup {PyDict([personality_type |-> "Analyst"])}

(***************************************************************************)
(* State.  now: the clock read by time.time().  profile_cache: the dict    *)
(* username -> (profile, timestamp).  messages: stored messages per chat.  *)
(* last: the call that has just returned, with its inputs and outcome,     *)
(* until the caller takes the result.                                      *)
(* windowStart, windowReqs: per username, the time of the successful fetch *)
(* that opened the current 300 s window of _get_cached_profile and the     *)
(* profile requests _get_cached_profile issued for it in that window.      *)
(***************************************************************************)
\* no call is in progress and the last result has been taken by the caller
Idle == [op |-> "idle"]

Init ==
  /\ now = 0
  /\ profile_cache = <<>>
  /\ messages = FirstMessages
  /\ last = Idle
  /\ windowStart = [u \in Usernames |-> {}]
  /\ windowReqs = [u \in Usernames |-> 0]

Unchanged == UNCHANGED <<now, profile_cache, messages, windowStart, windowReqs>>

(***************************************************************************)
(* Calls on the stateless helper.                                          *)
(***************************************************************************)
GetUserProfile(u) ==
  /\ last.op = "idle"
  /\ \E o \in Outcomes(InteractionProfiles) :
    /\ last' = [op |-> "get_user_profile", user |-> u, outcome |-> o,
                result |-> get_user_profile(o)]
    /\ Unchanged

BuildContext(u) ==
  /\ last.op = "idle"
  /\ \E o \in Outcomes(GreetingProfiles \cup ContextProfiles) :
    /\ last' = [op |-> "build_personalization_context", user |-> u, outcome |-> o,
                result |-> build_personalization_context(u, o)]
    /\ Unchanged

ResumeSummary(u) ==
  /\ last.op = "idle"
  /\ \E o \in Outcomes(ResumeProfiles), o2 \in Outcomes(ReportBodies) :
    /\ last' = [op |-> "get_resume_summary_for_chat", user |-> u, outcome |-> o,
                report |-> o2,
                result |-> get_resume_summary_for_chat(u, o, o2)]
    /\ Unchanged

ShouldPersonalize(u) ==
  /\ last.op = "idle"
  /\ \E o \in Outcomes(InteractionProfiles) :
    /\ last' = [op |-> "should_personalize_response", user |-> u, outcome |-> o,
                result |-> should_personalize_response(u, o)]
    /\ Unchanged

HelperGreeting(u) ==
  /\ last.op = "idle"
  /\ \E o \in Outcomes(GreetingProfiles) :
    /\ last' = [op |-> "helper.get_personalized_greeting", user |-> u, outcome |-> o,
                result |-> helper_get_personalized_greeting(u, o)]
    /\ Unchanged

ChatbotGreeting(u) ==
  /\ last.op = "idle"
  /\ \E o \in Outcomes(GreetingProfiles) :
    /\ last' = [op |-> "chatbot.get_personalized_greeting", user |-> u, outcome |-> o,
                result |-> chatbot_get_personalized_greeting(u, o)]
    /\ Unchanged

GreetingEndpoint(u) ==
  /\ last.op = "idle"
  /\ \E o \in Outcomes(GreetingProfiles) :
    /\ last' = [op |-> "GET greeting", user |-> u, outcome |-> o,
                result |-> get_greeting(u, o)]
    /\ Unchanged

TriggerUpdate(u) ==
  /\ last.op = "idle"
  /\ \E o \in Outcomes({PyDict([success |-> TRUE])}) :
    /\ last' = [op |-> "trigger_profile_update", user |-> u, outcome |-> o,
                result |-> trigger_profile_update(o)]
    /\ Unchanged

\* the caller takes the result of the call that returned
TakeResult ==
  /\ last.op # "idle"
  /\ last' = Idle
  /\ Unchanged

HelperNext ==
  \/ TakeResult
  \/ \E u \in Usernames :
    \/ GetUserProfile(u)
    \/ BuildContext(u)
    \/ ResumeSummary(u)
    \/ ShouldPersonalize(u)
    \/ HelperGreeting(u)
    \/ ChatbotGreeting(u)
    \/ GreetingEndpoint(u)
    \/ TriggerUpdate(u)

SpecHelper == Init /\ [][HelperNext]_vars

(***************************************************************************)
(* The chatbot with its cache and its clock (Spec).                        *)
(***************************************************************************)

\* the clock advances between calls
TickSteps == {299, 300, 301}

\* the profiles that reach the cache
SysProfiles ==
  {Profile({TRUE}, {[formality |-> "formal", verbosity |-> "detailed"]}, {<<"ml">>}, {}, {7}),
   Profile({TRUE}, {[formality |-> "casual", verbosity |-> "brief"]}, {}, {}, {2}),
   Profile({FALSE}, {[formality |-> "formal", verbosity |-> "detailed"]}, {}, {}, {})}

\* outcomes of a request: a timeout, an error status, a body
FewOutcomes(bodies) ==
  {TimeoutOutcome, Response(500, Malformed)} \cup {Response(HTTP_OK, b) : b \in bodies}

SysOutcomes == FewOutcomes(SysProfiles \cup {PyList})
\* outcomes of the request behind the context block, which only reaches the
\* prompt
ContextOutcomes ==
  {TimeoutOutcome, Response(HTTP_OK, PyList),
   Response(HTTP_OK, Profile({TRUE}, {[formality |-> "formal", verbosity |-> "detailed"]},
                             {<<"ml">>}, {}, {7}))}
ResumeOutcomes ==
  FewOutcomes({Profile({TRUE}, {}, {}, {[total_analyses |-> 3, average_score |-> 82,
                                         latest_score |-> 85,
                                         improvement_trend |-> "Improving"]}, {}),
               Profile({TRUE}, {}, {}, {}, {}), PyList})
ReportOutcomes ==
  FewOutcomes({PyDict([has_data |-> TRUE,
                       areas_for_improvement |-> SubSeq(ImprovementPool, 1, 4)]), PyList})
UpdateOutcomes == FewOutcomes({PyDict([success |-> TRUE])})

HostFailures == {"none", "history", "llm", "save", "messages"}
SaveRows == {1}
LlmTexts ==
  {Hey \o Bang,
   <<"I">> \o Spaced(Gonna) \o <<"g", "o">>,
   Hello}
ChatMessages ==
  {<<"h", "i">>,
   <<"M", "y", " ", "C", "V", "?">>,
   <<"c", "a", "r", "e">>}

\* the bookkeeping of the 300 s windows, after a call of _get_cached_profile
\* for u at time t that issued a request (issued) which stored a profile
\* (stored)
Window(u, t, issued, stored) ==
  LET open == windowStart[u] # {} /\ \A t0 \in windowStart[u] : t - t0 < cache_ttl
  IN  /\ windowStart' = [windowStart EXCEPT ![u] =
                           IF open THEN @ ELSE IF issued /\ stored THEN {t} ELSE {}]
      /\ windowReqs' = [windowReqs EXCEPT ![u] =
                          IF open THEN @ + (IF issued THEN 1 ELSE 0)
                          ELSE IF issued /\ stored THEN 1 ELSE 0]

\* the entry of u, if any
Entry(cache, u) == IF u \in DOMAIN cache THEN {cache[u]} ELSE {}

Tick ==
  /\ last.op = "idle"
  /\ \E d \in TickSteps :
    /\ now + d <= MaxNow
    /\ now' = now + d
    /\ UNCHANGED <<profile_cache, messages, last, windowStart, windowReqs>>

\* a call of _get_cached_profile
GetCachedProfileOver(u, outcomes) ==
  /\ last.op = "idle"
  /\ \E o \in (IF CacheFresh(profile_cache, u, now) THEN {TimeoutOutcome} ELSE outcomes) :
    LET r == get_cached_profile(profile_cache, u, now, o)
    IN  /\ profile_cache' = r.cache
        /\ last' = [op |-> "_get_cached_profile", user |-> u, at |-> now,
                    entry |-> Entry(profile_cache, u), outcome |-> o,
                    result |-> [raised |-> r.raised, exc |-> r.exc, value |-> r.value],
                    requests |-> r.requests]
        /\ Window(u, now, r.requests # <<>>, ~r.raised /\ Truthy(r.value))
        /\ UNCHANGED <<now, messages>>

\* GET /user/{username}/insights, the profile request ending in one of
\* outcomes; insights: what get_user_insights_for_ui returned or raised
InsightsEndpointOver(u, outcomes) ==
  /\ last.op = "idle"
  /\ \E o \in (IF CacheFresh(profile_cache, u, now) THEN {TimeoutOutcome} ELSE outcomes) :
    LET r == get_cached_profile(profile_cache, u, now, o)
        insights == IF r.raised THEN Raise(r.exc) ELSE InsightsOf(r.value)
    IN  /\ profile_cache' = r.cache
        /\ last' = [op |-> "GET insights", user |-> u, at |-> now,
                    entry |-> Entry(profile_cache, u), outcome |-> o,
                    inner |-> [raised |-> insights.raised, exc |-> insights.exc],
                    insights |-> insights,
                    result |-> get_user_insights(insights),
                    requests |-> r.requests]
        /\ Window(u, now, r.requests # <<>>, ~r.raised /\ Truthy(r.value))
        /\ UNCHANGED <<now, messages>>

InsightsEndpoint(u) == InsightsEndpointOver(u, SysOutcomes)

\* GET /user/{username}/greeting
SysGreetingEndpoint(u) ==
  /\ last.op = "idle"
  /\ \E o \in SysOutcomes :
    /\ last' = [op |-> "GET greeting", user |-> u, outcome |-> o,
                inner |-> [raised |-> helper_get_personalized_greeting(u, o).raised,
                           exc |-> helper_get_personalized_greeting(u, o).exc],
                result |-> get_greeting(u, o)]
    /\ Unchanged

\* POST /chat: the endpoint returns what chat_with_personalization returns
\* and hands on what it raises.  An input is drawn only for a call the turn
\* reaches.
ChatEndpoint(u) ==
  /\ last.op = "idle"
  /\ \E msg \in ChatMessages, rows \in SaveRows :
    LET resume == IsResumeQuestion(msg)
        fresh == CacheFresh(profile_cache, u, now)
    IN  \E o1 \in (IF resume THEN ResumeOutcomes ELSE ContextOutcomes) :
        \E fail \in (IF resume \/ build_personalization_context(u, o1).raised
                     THEN {"none"} ELSE HostFailures) :
          LET early == \/ resume
                       \/ build_personalization_context(u, o1).raised
                       \/ fail \in {"history", "llm"}
          IN  \E o2 \in (IF resume THEN ReportOutcomes
                         ELSE IF early \/ fresh THEN {TimeoutOutcome} ELSE SysOutcomes),
                 o3 \in (IF ~early /\ fail = "none"
                            /\ should_update_profile(u, messages + rows)
                         THEN UpdateOutcomes ELSE {TimeoutOutcome}),
                 llm \in (IF early THEN {<<>>} ELSE LlmTexts) :
                LET env == [o1 |-> o1, o2 |-> o2, o3 |-> o3, fail |-> fail, llm |-> llm,
                            rows |-> rows]
                    r == chat_with_personalization(profile_cache, now, messages, u, msg, env)
                    refreshed == ~early /\ ~fresh
                IN  /\ messages + rows <= MaxMessages
                    /\ profile_cache' = r.cache
                    /\ messages' = r.messages
                    /\ last' = [op |-> "POST /chat", user |-> u, message |-> msg,
                                at |-> now, fresh |-> fresh, count |-> messages,
                                entry |-> Entry(profile_cache, u), outcome |-> o1,
                                fail |-> fail, llm |-> llm,
                                result |-> [raised |-> r.raised, exc |-> r.exc,
                                            value |-> r.value],
                                requests |-> r.requests, llm_calls |-> r.llm_calls,
                                saved |-> r.saved, profile |-> r.profile,
                                update |-> r.update]
                    /\ Window(u, now, refreshed,
                              u \in DOMAIN r.cache /\ r.cache[u].timestamp = now)
                    /\ UNCHANGED now

\* the user of the chat surface
ChatUsers == {"asha"}

Next ==
  \/ Tick
  \/ TakeResult
  \/ \E u \in ChatUsers :
       \/ InsightsEndpoint(u)
       \/ SysGreetingEndpoint(u)
       \/ ChatEndpoint(u)

Spec == Init /\ [][Next]_vars

(***************************************************************************)
(* The cache under every outcome of the profile request, for two users     *)
(* (SpecCache).                                                            *)
(***************************************************************************)
GetCachedProfile(u) == GetCachedProfileOver(u, Outcomes(SysProfiles))

CacheNext ==
  \/ Tick
  \/ TakeResult
  \/ \E u \in Usernames :
       \/ GetCachedProfile(u)
       \/ InsightsEndpoint(u)

SpecCache == Init /\ [][CacheNext]_vars

(***************************************************************************)
(* The insights shown in the chat UI, over profiles with up to four topics *)
(* and with or without resume analyses (SpecInsights).                     *)
(***************************************************************************)
InsightProfiles ==
  {Profile({TRUE}, {}, tp, ri, {7}) :
     tp \in {{}, {<<>>}} \cup {{SubSeq(TopicPool, 1, n)} : n \in {3, 4}},
     ri \in {{}, {[average_score |-> 82]}}
            \cup {{[total_analyses |-> n, average_score |-> 82]} : n \in {0, 3}}}
    \cup {Profile(da, {}, {SubSeq(TopicPool, 1, 4)},
                  {[total_analyses |-> 3, average_score |-> 82]}, {7}) : da \in {{}, {FALSE}}}

UserInsights(u) == InsightsEndpointOver(u, FewOutcomes(InsightProfiles \cup {PyList}))

InsightsNext ==
  \/ Tick
  \/ TakeResult
  \/ \E u \in ChatUsers : UserInsights(u)

SpecInsights == Init /\ [][InsightsNext]_vars

(***************************************************************************)
(* Vocabulary of the properties: what a request outcome means.             *)
(***************************************************************************)
\* the four failure kinds: timeout, connection failure, non-success status,
\* success status with a malformed or absent body
FailedFetch(o) ==
  \/ o.kind # "response"
  \/ o.status # 200
  \/ o.body = Malformed
  \/ o.body = PyNone

\* a 200 response whose body is a JSON object
ObjectBody(o) == o.kind = "response" /\ o.status = 200 /\ o.body.type = "dict"

\* a 200 response with a profile whose data_available is false or missing
NoDataBody(o) ==
  /\ ObjectBody(o)
  /\ ("data_available" \notin DOMAIN o.body.items \/ o.body.items["data_available"] = FALSE)

\* a 200 response with a profile that has data
DataBody(o) ==
  /\ ObjectBody(o)
  /\ "data_available" \in DOMAIN o.body.items
  /\ o.body.items["data_available"] = TRUE

\* field k of p is there and is not empty
NonEmpty(p, k) == k \in DOMAIN p /\ p[k] # <<>>

\* the profile p asks for the formality f
HasFormality(p, f) ==
  /\ "communication_style" \in DOMAIN p
  /\ "formality" \in DOMAIN p["communication_style"]
  /\ p["communication_style"]["formality"] = f

IsFormal(p) == HasFormality(p, "formal")

\* username occurs in the text as one of its fragments
Names(text, username) == \E i \in 1..Len(text) : text[i] = username

(***************************************************************************)
(* Properties of the helper (SpecHelper).                                  *)
(***************************************************************************)

\* C1: when the profile fetch yields absent (any failure), or a profile whose
\* data_available is false or missing, build_personalization_context returns
\* the empty string.
C1_EmptyContextWithoutData ==
  (last.op = "build_personalization_context"
     /\ (FailedFetch(last.outcome) \/ NoDataBody(last.outcome)))
    => (~last.result.raised /\ last.result.value = <<>>)

C1_Witness ==
  /\ last.op = "build_personalization_context"
  /\ ObjectBody(last.outcome)
  /\ "data_available" \notin DOMAIN last.outcome.body.items
  /\ "topics_of_interest" \in DOMAIN last.outcome.body.items
  /\ last.result.value = <<>>

\* C4: trigger_profile_update returns true exactly when the POST completes
\* with status 200; for any other status and for a timeout or a connection
\* error it returns false, and no exception escapes.
C4_TriggerTrueIffStatus200 ==
  last.op = "trigger_profile_update" =>
    /\ ~last.result.raised
    /\ last.result.value = (last.outcome.kind = "response" /\ last.outcome.status = 200)

C4_Witness ==
  /\ last.op = "trigger_profile_update"
  /\ last.outcome.kind = "response"
  /\ last.outcome.status = 500
  /\ ~last.result.raised
  /\ last.result.value = FALSE

\* C5: get_user_profile returns absent and raises nothing in each of the four
\* failure kinds, and returns a profile (the decoded body) only for status 200
\* with a body that parses.
C5_FetchFailuresAreAbsent ==
  last.op = "get_user_profile" =>
    /\ ~last.result.raised
    /\ FailedFetch(last.outcome) => last.result.value = PyNone
    /\ last.result.value # PyNone =>
         /\ last.outcome.kind = "response"
         /\ last.outcome.status = 200
         /\ last.outcome.body # Malformed
         /\ last.result.value = last.outcome.body

C5_Witness ==
  /\ last.op = "get_user_profile"
  /\ last.outcome.kind = "response"
  /\ last.outcome.status = 200
  /\ last.outcome.body = Malformed
  /\ ~last.result.raised
  /\ last.result.value = PyNone

\* a profile whose resume_insights is missing, or has total_analyses missing
\* or zero
ZeroAnalyses(o) ==
  /\ ObjectBody(o)
  /\ LET p == o.body.items
     IN  \/ "resume_insights" \notin DOMAIN p
         \/ "total_analyses" \notin DOMAIN p["resume_insights"]
         \/ p["resume_insights"]["total_analyses"] = 0

\* C6: for a profile with zero resume analyses (or none recorded),
\* get_resume_summary_for_chat returns one of the fixed "no data" strings,
\* never a text with a score, trend or tier sentence.
C6_ZeroAnalysesGivesNoDataText ==
  (last.op = "get_resume_summary_for_chat" /\ ZeroAnalyses(last.outcome)) =>
    /\ ~last.result.raised
    /\ last.result.value \in {NoProfileMessage, NoResumeMessage}
    /\ \A i \in 1..Len(last.result.value) :
         /\ last.result.value[i] \notin TierSentences
         /\ last.result.value[i] \notin {"**Average Score**: ", "**Latest Score**: ", "**Trend**: "}

C6_Witness ==
  /\ last.op = "get_resume_summary_for_chat"
  /\ ObjectBody(last.outcome)
  /\ "resume_insights" \in DOMAIN last.outcome.body.items
  /\ "total_analyses" \in DOMAIN last.outcome.body.items["resume_insights"]
  /\ last.outcome.body.items["resume_insights"]["total_analyses"] = 0
  /\ last.result.value = NoResumeMessage

\* C7: should_personalize_response is true exactly when a profile is
\* available and its total_interactions is at least 5: false for 0..4, false
\* when the profile is absent or has no total_interactions, true from 5 on.
C7_PersonalizeIffFiveInteractions ==
  last.op = "should_personalize_response" =>
    /\ FailedFetch(last.outcome) => (~last.result.raised /\ last.result.value = FALSE)
    /\ ObjectBody(last.outcome) =>
         /\ ~last.result.raised
         /\ last.result.value =
              (/\ "total_interactions" \in DOMAIN last.outcome.body.items
               /\ last.outcome.body.items["total_interactions"] >= 5)

C7_Witness ==
  /\ last.op = "should_personalize_response"
  /\ ObjectBody(last.outcome)
  /\ "total_interactions" \in DOMAIN last.outcome.body.items
  /\ last.outcome.body.items["total_interactions"] = 5
  /\ last.result.value = TRUE

\* C8: whatever the fetch outcome, the greeting returned by the helper names
\* the user; the chatbot wrapper and the greeting endpoint always return a
\* greeting that names the user, also when the helper raises.
C8_GreetingNamesUser ==
  /\ (last.op = "helper.get_personalized_greeting" /\ ~last.result.raised)
       => Names(last.result.value, last.user)
  /\ last.op = "chatbot.get_personalized_greeting"
       => (~last.result.raised /\ Names(last.result.value, last.user))
  /\ last.op = "GET greeting"
       => (~last.result.raised /\ Names(last.result.value.greeting, last.user))

\* the helper raised and the endpoint still greeted the user by name
C8_Witness ==
  /\ last.op = "GET greeting"
  /\ helper_get_personalized_greeting(last.user, last.outcome).raised
  /\ Names(last.result.value.greeting, last.user)

\* a profile whose resume_insights records analyses, a score, a latest score
\* and a trend
Scored(o) ==
  /\ ObjectBody(o)
  /\ "resume_insights" \in DOMAIN o.body.items
  /\ {"total_analyses", "average_score", "latest_score", "improvement_trend"}
       \subseteq DOMAIN o.body.items["resume_insights"]
  /\ o.body.items["resume_insights"]["total_analyses"] > 0

\* the fragments of text that are score-tier sentences, in order
TiersIn(text) == SelectSeq(text, LAMBDA f : f \in TierSentences)

\* C11: for a profile with total_analyses > 0, the summary returned by
\* get_resume_summary_for_chat holds exactly one score-tier sentence, chosen
\* by average_score alone (excellent from 80, good in 70..79, needs work in
\* 60..69, significant improvements below 60), and shows the average score,
\* the latest score and the trend.
C11_OneTierByAverageScore ==
  (last.op = "get_resume_summary_for_chat" /\ Scored(last.outcome) /\ ~last.result.raised) =>
    LET ri == last.outcome.body.items["resume_insights"]
        score == ri["average_score"]
        text == last.result.value
    IN  /\ TiersIn(text) =
             << CASE score >= 80 -> "Your resume is in excellent shape! "
                  [] 70 <= score /\ score < 80 -> "Your resume is good, with room for improvement. "
                  [] 60 <= score /\ score < 70 -> "Your resume needs some work to stand out. "
                  [] score < 60 -> "Your resume needs significant improvements. " >>
        /\ Contains(text, <<"**Average Score**: ", ToString(score), "%\n">>)
        /\ Contains(text, <<"**Latest Score**: ", ToString(ri["latest_score"]), "%\n">>)
        /\ Contains(text, <<"**Trend**: ", ri["improvement_trend"], "\n">>)

\* average 82, latest 85, trend Improving: "82%", "85%", "Improving" and the
\* excellent sentence
C11_Witness ==
  /\ last.op = "get_resume_summary_for_chat"
  /\ Scored(last.outcome)
  /\ last.outcome.body.items["resume_insights"]["average_score"] = 82
  /\ last.outcome.body.items["resume_insights"]["latest_score"] = 85
  /\ last.outcome.body.items["resume_insights"]["improvement_trend"] = "Improving"
  /\ ~last.result.raised
  /\ Contains(last.result.value, <<"82", "%\n">>)
  /\ Contains(last.result.value, <<"85", "%\n">>)
  /\ Contains(last.result.value, <<"Improving", "\n">>)
  /\ TiersIn(last.result.value) = <<TierExcellent>>

\* the labels that open the lines of the context block, in the fixed order
ContextLabels ==
  <<"Personality traits: ", "Communication style: ", "Topics of interest: ",
    "Skill levels: ", "Learning recommendations: ", "Resume performance: ">>

\* the labels found in text, in order
LabelsIn(text) ==
  SelectSeq(text, LAMBDA f : \E i \in DOMAIN ContextLabels : f = ContextLabels[i])

\* the fragments of text between label and the end of its line
LineAfter(text, label) ==
  LET at == CHOOSE i \in 1..Len(text) : text[i] = label
      end == CHOOSE j \in (at + 1)..Len(text) :
               text[j] = "\n" /\ \A k \in (at + 1)..(j - 1) : text[k] # "\n"
  IN  SubSeq(text, at + 1, end - 1)

SomeTrait(p) == NonEmpty(p, "personality_traits")
SomeNumericTrait(p) ==
  /\ "personality_traits" \in DOMAIN p
  /\ \E i \in 1..Len(p["personality_traits"]) : p["personality_traits"][i].numeric

\* the source of the line that label opens is not empty; traits: whether the
\* personality traits count as not empty
SourceNonEmpty(p, label, traits) ==
  CASE label = "Personality traits: " -> traits
    [] label = "Communication style: " -> NonEmpty(p, "communication_style")
    [] label = "Topics of interest: " -> NonEmpty(p, "topics_of_interest")
    [] label = "Skill levels: " -> NonEmpty(p, "skill_levels")
    [] label = "Learning recommendations: " ->
         NonEmpty(p, "recommendations") /\ NonEmpty(p["recommendations"], "learning_style")
    [] label = "Resume performance: " ->
         /\ NonEmpty(p, "resume_insights")
         /\ "total_analyses" \in DOMAIN p["resume_insights"]
         /\ p["resume_insights"]["total_analyses"] > 0

\* the first n entries of xs, separated by sep
Listed(xs, n, sep) ==
  LET m == IF Len(xs) < n THEN Len(xs) ELSE n
  IN  [i \in 1..(IF m = 0 THEN 0 ELSE 2 * m - 1) |->
         IF i % 2 = 1 THEN xs[(i + 1) \div 2] ELSE sep]

\* the block text holds the lines of p in the fixed order, a line being there
\* exactly when its source is not empty, with at most 5 topics and 2
\* learning recommendations
BlockShape(p, text, traits) ==
  /\ LabelsIn(text) = SelectSeq(ContextLabels, LAMBDA l : SourceNonEmpty(p, l, traits))
  /\ NonEmpty(p, "topics_of_interest") =>
       LineAfter(text, "Topics of interest: ") = Listed(p["topics_of_interest"], 5, ", ")
  /\ SourceNonEmpty(p, "Learning recommendations: ", traits) =>
       LineAfter(text, "Learning recommendations: ")
         = Listed(p["recommendations"]["learning_style"], 2, "; ")

\* C12 as stated: for a profile with data_available true, the lines of the
\* block appear in the order personality traits, communication style,
\* topics, skill levels, learning recommendations, resume performance; a
\* line is present exactly when its source field is non-empty (resume line:
\* total_analyses > 0); at most the first 5 topics and the first 2 learning
\* recommendations are listed, in their order.
C12_LinePresentIffFieldNonEmpty ==
  (last.op = "build_personalization_context" /\ DataBody(last.outcome)) =>
    /\ ~last.result.raised
    /\ BlockShape(last.outcome.body.items, last.result.value,
                  SomeTrait(last.outcome.body.items))

\* C12, amended: as stated, except that the personality traits line is
\* present exactly when some trait has a numeric value.
C12_TraitsLineIffNumericTrait ==
  (last.op = "build_personalization_context" /\ DataBody(last.outcome)) =>
    /\ ~last.result.raised
    /\ BlockShape(last.outcome.body.items, last.result.value,
                  SomeNumericTrait(last.outcome.body.items))

\* six topics and three recommendations, every line present
C12_Witness ==
  /\ last.op = "build_personalization_context"
  /\ DataBody(last.outcome)
  /\ NonEmpty(last.outcome.body.items, "topics_of_interest")
  /\ Len(last.outcome.body.items["topics_of_interest"]) = 6
  /\ NonEmpty(last.outcome.body.items, "recommendations")
  /\ NonEmpty(last.outcome.body.items["recommendations"], "learning_style")
  /\ Len(last.outcome.body.items["recommendations"]["learning_style"]) = 3
  /\ LabelsIn(last.result.value) = ContextLabels
  /\ Len(LineAfter(last.result.value, "Topics of interest: ")) = 9
  /\ Len(LineAfter(last.result.value, "Learning recommendations: ")) = 3

\* the follow-up sentences that name no topic
GenericFollowUps ==
  {<<" How can I help you with your academic or career goals today?">>,
   <<" What would you like to learn about today?">>}

\* C13: get_personalized_greeting returns the plain greeting when the
\* profile is absent or has no data; otherwise the greeting starts with
\* "Hello {username}," when the formality is "formal" and with
\* "Hey {username}! " for every other formality, and ends with exactly one
\* follow-up sentence, which names the first topic of interest when there
\* are topics and is a generic sentence otherwise.
C13_GreetingShape ==
  last.op = "helper.get_personalized_greeting" =>
    /\ (FailedFetch(last.outcome) \/ NoDataBody(last.outcome)) =>
         /\ ~last.result.raised
         /\ last.result.value = <<"Hi ", last.user, "! (wave)">>
    /\ DataBody(last.outcome) =>
         /\ ~last.result.raised
         /\ LET p == last.outcome.body.items
                text == last.result.value
                opening == IF IsFormal(p) THEN <<"Hello ", last.user, ",">>
                           ELSE <<"Hey ", last.user, "! ", "(wave)">>
                followup == SubSeq(text, Len(opening) + 1, Len(text))
            IN  /\ Len(text) > Len(opening)
                /\ SubSeq(text, 1, Len(opening)) = opening
                /\ IF NonEmpty(p, "topics_of_interest")
                   THEN followup = <<" Ready to explore ", p["topics_of_interest"][1], " today?">>
                   ELSE followup \in GenericFollowUps

\* a casual profile with two topics: "Hey", the name, and the first topic
C13_Witness ==
  /\ last.op = "helper.get_personalized_greeting"
  /\ DataBody(last.outcome)
  /\ ~IsFormal(last.outcome.body.items)
  /\ NonEmpty(last.outcome.body.items, "topics_of_interest")
  /\ Len(last.outcome.body.items["topics_of_interest"]) = 2
  /\ last.result.value =
       <<"Hey ", last.user, "! ", "(wave)", " Ready to explore ",
         last.outcome.body.items["topics_of_interest"][1], " today?">>

\* the "no data" case of a profile request: the profile is absent (or
\* empty), its resume_insights is missing (or empty), its total_analyses is
\* zero (or missing); "none" when the profile has analyses or is no object
NoDataCase(o) ==
  IF FailedFetch(o) THEN "absent"
  ELSE IF ~ObjectBody(o) THEN "none"
  ELSE IF DOMAIN o.body.items = {} THEN "absent"
  ELSE IF ~NonEmpty(o.body.items, "resume_insights") THEN "missing"
  ELSE IF "total_analyses" \notin DOMAIN o.body.items["resume_insights"] THEN "zero"
  ELSE IF o.body.items["resume_insights"]["total_analyses"] = 0 THEN "zero"
  ELSE "none"

\* the message get_resume_summary_for_chat returns in a "no data" case, taken
\* from one call of the case
CannedMessage(c) ==
  LET o == CASE c = "absent" -> TimeoutOutcome
             [] c = "missing" -> Response(200, PyDict([data_available |-> TRUE]))
             [] c = "zero" ->
                  Response(200, PyDict([resume_insights |-> [total_analyses |-> 0]]))
  IN  get_resume_summary_for_chat("asha", o, TimeoutOutcome).value

HasAnalyses(o) ==
  /\ ObjectBody(o)
  /\ NonEmpty(o.body.items, "resume_insights")
  /\ "total_analyses" \in DOMAIN o.body.items["resume_insights"]
  /\ o.body.items["resume_insights"]["total_analyses"] > 0

\* a report with has_data true and areas for improvement
UsableReport(o) ==
  /\ ObjectBody(o)
  /\ "has_data" \in DOMAIN o.body.items
  /\ o.body.items["has_data"] = TRUE
  /\ NonEmpty(o.body.items, "areas_for_improvement")

\* the items of the bullets in text, in order
BulletItems(text) ==
  LET at == SelectSeq([i \in 1..Len(text) |-> i], LAMBDA i : text[i] = "* ")
  IN  [k \in 1..Len(at) |-> text[at[k] + 1]]

\* C20: get_resume_summary_for_chat requests the report only when the
\* profile has total_analyses > 0; the summary lists the first 3 areas for
\* improvement at most, in order, and only when the report was fetched, has
\* has_data true and a non-empty list; when the report request fails, the
\* summary with the scores is still returned, without bullets.
C20_ReportOnlyWithAnalyses ==
  last.op = "get_resume_summary_for_chat" =>
    LET text == last.result.value
        areas == last.report.body.items["areas_for_improvement"]
    IN  /\ (\E i \in 1..Len(last.result.requests) : last.result.requests[i] = "GET report")
             => HasAnalyses(last.outcome)
        /\ ~HasAnalyses(last.outcome) /\ ~last.result.raised => BulletItems(text) = <<>>
        /\ HasAnalyses(last.outcome) /\ ~last.result.raised =>
             BulletItems(text) =
               IF UsableReport(last.report)
               THEN [i \in 1..(IF Len(areas) < 3 THEN Len(areas) ELSE 3) |-> areas[i]]
               ELSE <<>>
        /\ HasAnalyses(last.outcome) /\ FailedFetch(last.report) =>
             /\ ~last.result.raised
             /\ last.result.requests = <<"GET profile", "GET report">>
             /\ Contains(text, <<"**Average Score**: ">>)
             /\ Len(TiersIn(text)) = 1
             /\ BulletItems(text) = <<>>

\* four areas for improvement in the report: three bullets
C20_Witness ==
  /\ last.op = "get_resume_summary_for_chat"
  /\ HasAnalyses(last.outcome)
  /\ UsableReport(last.report)
  /\ Len(last.report.body.items["areas_for_improvement"]) = 4
  /\ ~last.result.raised
  /\ Len(BulletItems(last.result.value)) = 3
  /\ last.result.requests = <<"GET profile", "GET report">>

(***************************************************************************)
(* Style adaptation on its own (SpecStyle): texts made of up to MaxChunks  *)
(* fragments, adapted for every communication style.                       *)
(***************************************************************************)
MaxChunks == 3

TextFragments == {Gonna, <<" ">> \o Gonna, Wanna, Hey, Hello, Bang, <<" ">>, <<"x">>, Pad}
\* the texts of up to MaxChunks fragments, the filler at most once
Texts ==
  {Flatten(cs) : cs \in {c \in UNION {[1..k -> TextFragments] : k \in 0..MaxChunks} :
                           Cardinality({i \in DOMAIN c : c[i] = Pad}) <= 1}}
StyleProfiles == {Field("communication_style", cs) : cs \in CommStyleOpts}

AdaptStyle ==
  /\ last.op = "idle"
  /\ \E text \in Texts, p \in StyleProfiles :
    /\ last' = [op |-> "_adapt_response_style", text |-> text, profile |-> p,
                result |-> adapt_response_style(text, p), first |-> {}]
    /\ Unchanged

\* the caller hands the adapted text to _adapt_response_style once more,
\* with the same profile; first: the text of the first call
AdaptAgain ==
  /\ last.op = "_adapt_response_style"
  /\ last.first = {}
  /\ last' = [op |-> "_adapt_response_style", text |-> last.result,
              profile |-> last.profile,
              result |-> adapt_response_style(last.result, last.profile),
              first |-> {last.text}]
  /\ Unchanged

StyleNext == AdaptStyle \/ AdaptAgain \/ TakeResult

SpecStyle == Init /\ [][StyleNext]_vars

\* C3: with a profile whose formality is "formal", the output of
\* _adapt_response_style contains neither "gonna" nor "wanna", whatever the
\* input text.
C3_FormalLeavesNoGonnaWanna ==
  (last.op = "_adapt_response_style" /\ IsFormal(last.profile)) =>
    (~Contains(last.result, Gonna) /\ ~Contains(last.result, Wanna))

\* the call in last adapted the output of a first call with the same profile
Reapplied == last.op = "_adapt_response_style" /\ last.first # {}

\* C16: formal mode is idempotent: applied to the output of formal mode, it
\* returns that output unchanged.
C16_FormalIdempotent ==
  (Reapplied /\ IsFormal(last.profile)) => last.result = last.text

IsCasual(p) == HasFormality(p, "casual")

\* C17: casual mode replaces every "Hello" by "Hey" and then appends the
\* friendly marker exactly when the resulting text has no "!" and more than
\* 50 characters (none at exactly 50); nothing else in the text changes.
C17_CasualMarkerIffLongAndCalm ==
  (last.op = "_adapt_response_style" /\ IsCasual(last.profile)) =>
    LET body == Replace(last.text, Hello, Hey)
    IN  /\ ~Contains(body, Hello)
        /\ last.result =
             IF ~Contains(body, <<"!">>) /\ Len(body) > 50
             THEN body \o <<" ", "U+00F0", "U+0178", "U+02DC", "U+0160">>
             ELSE body

\* a text of 52 characters that is 50 long once "Hello" is "Hey": no marker
C17_Witness ==
  /\ last.op = "_adapt_response_style"
  /\ IsCasual(last.profile)
  /\ last.first = {}
  /\ Len(last.text) = 52
  /\ Contains(last.text, Hello)
  /\ ~Contains(last.text, Bang)
  /\ Len(last.result) = 50
  /\ Contains(last.result, Hey)

C2_OneRequestPerWindow ==
  \A u \in Usernames : windowStart[u] # {} => windowReqs[u] = 1

\* a second call, 299 s after the fetch, answered from the cache
C2_Witness ==
  /\ last.op = "_get_cached_profile"
  /\ windowStart[last.user] # {}
  /\ \A t0 \in windowStart[last.user] : last.at = t0 + 299
  /\ last.requests = <<>>
  /\ windowReqs[last.user] = 1

\* the entry found by the call in last was younger than 300 s
FoundFresh ==
  last.entry # {} /\ \A e \in last.entry : last.at - e.timestamp < 300

\* C10: _get_cached_profile returns the cached profile without a request
\* exactly when an entry exists with now - fetched_at < 300 (an age of 300
\* is expired); otherwise it requests the profile, and when that fails it
\* returns absent, never the expired profile.
C10_FreshServedElseFetched ==
  last.op = "_get_cached_profile" =>
    /\ ~last.result.raised
    /\ FoundFresh =>
         /\ last.requests = <<>>
         /\ \A e \in last.entry : last.result.value = e.profile
    /\ ~FoundFresh =>
         /\ last.requests = <<"GET profile">>
         /\ FailedFetch(last.outcome) => last.result.value = PyNone
         /\ ~FailedFetch(last.outcome) => last.result.value = last.outcome.body

\* an entry aged exactly 300 s, a failed refresh, and absent returned
C10_Witness ==
  /\ last.op = "_get_cached_profile"
  /\ last.entry # {}
  /\ \A e \in last.entry : last.at - e.timestamp = 300
  /\ FailedFetch(last.outcome)
  /\ last.requests = <<"GET profile">>
  /\ last.result.value = PyNone

\* C19: the cache changes only in a call of _get_cached_profile whose
\* request succeeded, and then only in the entry of the requested username,
\* which becomes the fetched profile stamped with the time of the call; a
\* failed request leaves every entry, fresh or expired, as it was.
C19_CacheWrittenOnlyOnSuccess ==
  [][profile_cache' # profile_cache =>
       /\ last'.op \in {"_get_cached_profile", "GET insights"}
       /\ last'.requests = <<"GET profile">>
       /\ ~FailedFetch(last'.outcome)
       /\ \A v \in Usernames \ {last'.user} :
            Entry(profile_cache', v) = Entry(profile_cache, v)
       /\ Entry(profile_cache', last'.user)
            = {[profile |-> last'.outcome.body, timestamp |-> now]}]_vars

\* an expired entry, a failed refresh, and the entry still in the cache while
\* the other user has an entry too
C19_Witness ==
  /\ last.op = "_get_cached_profile"
  /\ last.entry # {}
  /\ ~FoundFresh
  /\ FailedFetch(last.outcome)
  /\ last.requests = <<"GET profile">>
  /\ Entry(profile_cache, last.user) = last.entry
  /\ \E v \in Usernames \ {last.user} : Entry(profile_cache, v) # {}

\* the profile that the call in last got from _get_cached_profile
ProfileSeen ==
  IF FoundFresh THEN (CHOOSE e \in last.entry : TRUE).profile
  ELSE IF FailedFetch(last.outcome) THEN PyNone
  ELSE last.outcome.body

ChatTurn == last.op = "POST /chat"

\* the message holds a resume keyword, whatever the case of its letters
KeywordMessage(msg) ==
  \E k \in 1..Len(resume_keywords) : Contains(Lower(msg), resume_keywords[k])

\* the requests named r among those the call in last issued
Issued(r) == SelectSeq(last.requests, LAMBDA q : q = r)

\* C21: a chat turn without resume keyword that saved its message issues the
\* profile update exactly when the number of stored messages, counted after
\* the save, is positive and a multiple of 10, and a turn that saved nothing
\* issues none; when the update fails, the turn still returns the response it
\* saved.
C21_UpdateEveryTenthMessage ==
  (ChatTurn /\ ~KeywordMessage(last.message)) =>
    /\ last.saved = <<>> => Issued("POST update") = <<>>
    /\ (last.saved # <<>> /\ last.fail = "none") =>
         /\ ~last.result.raised
         /\ Issued("POST update") =
              IF messages > 0 /\ messages % 10 = 0 THEN <<"POST update">> ELSE <<>>
         /\ last.update # <<>> <=> Issued("POST update") # <<>>
         /\ last.result.value.response = last.saved[1]

\* the tenth message is saved, the update fails, the response is returned
C21_Witness ==
  /\ ChatTurn
  /\ ~KeywordMessage(last.message)
  /\ messages = 10
  /\ last.count = 9
  /\ Issued("POST update") = <<"POST update">>
  /\ last.update = <<FALSE>>
  /\ ~last.result.raised
  /\ last.result.value.response = last.saved[1]

\* the turn in last got as far as its call of _get_cached_profile: the LLM
\* was invoked and answered
ReachedCache ==
  /\ ChatTurn
  /\ ~KeywordMessage(last.message)
  /\ last.llm_calls = 1
  /\ last.fail # "llm"

WithData(p) ==
  /\ p.type = "dict"
  /\ "data_available" \in DOMAIN p.items
  /\ p.items["data_available"] = TRUE

\* the profile the turn in last obtained: the one the helper fetched for the
\* resume summary, or the one _get_cached_profile returned
Obtained ==
  IF KeywordMessage(last.message)
  THEN IF FailedFetch(last.outcome) THEN PyNone ELSE last.outcome.body
  ELSE last.profile

\* C23: the "personalized" flag of a chat response is true only if the turn
\* obtained a profile whose data_available is true; with an absent profile
\* or one without data it is false.
C23_PersonalizedOnlyWithData ==
  (ChatTurn /\ ~last.result.raised) =>
    /\ last.result.value.personalized => WithData(Obtained)
    /\ ~WithData(Obtained) => last.result.value.personalized = FALSE

\* the text is an answer of the resume summary: one of its two fallback
\* messages or the score summary
ResumeAnswer(text) ==
  \/ text = NoProfileMessage
  \/ text = NoResumeMessage
  \/ text # <<>> /\ text[1] = "Based on your "

\* C24: a chat turn whose message holds a resume keyword, in any case of
\* letters, changes neither the cache nor the number of stored messages,
\* invokes no LLM, saves nothing, issues no update and no request other than
\* the profile and report GETs of the summary, and what it returns is the
\* resume summary.
C24_ResumeTurnFrame ==
  [][(last'.op = "POST /chat" /\ KeywordMessage(last'.message)) =>
       /\ profile_cache' = profile_cache
       /\ messages' = messages
       /\ now' = now
       /\ last'.llm_calls = 0
       /\ last'.saved = <<>>
       /\ last'.update = <<>>
       /\ \A i \in 1..Len(last'.requests) :
            last'.requests[i] \in {"GET profile", "GET report"}
       /\ ~last'.result.raised => ResumeAnswer(last'.result.value.response)]_vars

\* "My CV?" asked as the tenth message of the chat, with a profile cached:
\* the score summary is returned, the count stays at 9, the entry stays
C24_Witness ==
  /\ ChatTurn
  /\ last.message = <<"M", "y", " ", "C", "V", "?">>
  /\ last.count = 9
  /\ messages = 9
  /\ last.entry # {}
  /\ Entry(profile_cache, last.user) = last.entry
  /\ last.llm_calls = 0
  /\ last.saved = <<>>
  /\ last.requests = <<"GET profile", "GET report">>
  /\ ~last.result.raised
  /\ last.result.value.response[1] = "Based on your "

\* C25: in a chat turn without resume keyword, the text saved is the text
\* returned; whenever the profile that _get_cached_profile gave is absent or
\* has no data_available true, the text saved, and returned, is the output
\* of the LLM as it came, whatever style that profile names; a text that
\* differs from the LLM's output goes with a profile that has data.
C25_SavedIsReturned ==
  (ChatTurn /\ ~KeywordMessage(last.message)) =>
    /\ Len(last.saved) <= 1
    /\ ~last.result.raised =>
         /\ last.saved = <<last.result.value.response>>
         /\ ~WithData(last.profile) => last.result.value.response = last.llm
    /\ last.saved # <<>> =>
         /\ ~WithData(last.profile) => last.saved[1] = last.llm
         /\ last.saved[1] # last.llm => WithData(last.profile)

\* the LLM's "Hey!" is rewritten for a formal profile with data, and the
\* rewritten text is both saved and returned
C25_Witness ==
  /\ ChatTurn
  /\ ~KeywordMessage(last.message)
  /\ ~last.result.raised
  /\ WithData(last.profile)
  /\ last.llm = Hey \o Bang
  /\ last.result.value.response # last.llm
  /\ last.saved = <<last.result.value.response>>

\* C9: each of the three endpoints returns a JSON body and hands no
\* exception to the HTTP layer, whatever internal step fails.
C9_EndpointsNeverRaise ==
  last.op \in {"GET insights", "GET greeting", "POST /chat"} => ~last.result.raised

====
